---- MODULE Spec2Model ----
(***************************************************************************)
(* upbit-connect: the adaptive rate limiter (upbit_connect/limiter.py),    *)
(* the request executors (upbit_connect/client.py) and the streaming       *)
(* session (upbit_connect/websocket/client.py) as state machines.          *)
(*                                                                         *)
(* Time is discrete: one tick is 1/TicksPerSec second.  The limiter's      *)
(* bucket holds, for every timestamp the code stores, its age in ticks     *)
(* (current time minus timestamp), which is all the code ever reads of a   *)
(* timestamp; an age saturates at TicksPerSec (one second or more).        *)
(***************************************************************************)
EXTENDS Integers, Naturals, Sequences, FiniteSets, TLC

\* ------------------------------------------------------------------ bounds
TicksPerSec == 2
MaxCap == 2
MaxSec == 3

MaxConns == 2
MaxSubs == 2
MaxStreak == 8
MaxMsgs == 2
MaxChannels == 2
MaxTracked == 3

\* --------------------------------------------------------- program constants
max_retries == 5
base_delay == 1
max_delay == 60
RECONNECT_DELAY == 1
MAX_RECONNECT_DELAY == 60

VARIABLES
    \* RateLimiter
    max_requests, auto_retry, remaining, bucket, retry_count,
    \* the tasks inside wait_if_needed
    callers, pc, sleepLeft,
    \* history of the limiter
    lastOp, admits, waited,
    \* UpbitWebSocket
    access_key, secret_key, websocket, subscriptions, running, reconnect_delay,
    \* the task inside run(): where it is suspended, and its locals
    runPc, subs_to_restore, replayIdx, sendConn, iterConn,
    \* the transports, by connection number, and how many messages run's
    \* iteration has taken from the one it iterates
    conn, taken,
    \* the caller's task: the call it is suspended in, and that call's locals
    callerPc, callerEntry, callerConn, callerMsg,
    \* how the caller's last call ended: "none" while it is in progress, "ok"
    \* ("subscribed" and "removed" when it changed subscriptions), or the error
    \* it raised
    callerResult,
    \* history of the session
    desired, interfered, sinceFailure, atFailure, replayed, closeReturned,
    cancelLeftOpen, sleepFor, streak, lastCb, cbDone,
    \* a request executor (UpbitClient / AsyncUpbitClient): the request in
    \* progress, where it is, and what it has done so far
    req, reqPc, trace

limVars == <<max_requests, auto_retry, remaining, bucket, retry_count,
             callers, pc, sleepLeft, lastOp, admits, waited>>

wsVars == <<websocket, subscriptions, running, reconnect_delay, runPc,
            subs_to_restore, replayIdx, sendConn, iterConn, conn, callerPc,
            callerEntry, callerConn, desired, interfered, sinceFailure,
            atFailure, replayed, closeReturned, cancelLeftOpen, sleepFor,
            streak, taken, lastCb, cbDone, callerResult, access_key,
            secret_key, callerMsg>>

reqVars == <<req, reqPc, trace>>

vars == <<limVars, wsVars, reqVars>>

Tasks == {"t1", "t2"}

None == <<>>

Some(x) == <<x>>

Min(a, b) == IF a < b THEN a ELSE b

Max(a, b) == IF a > b THEN a ELSE b

RECURSIVE Pow2(_)
Pow2(n) == IF n = 0 THEN 1 ELSE 2 * Pow2(n - 1)

\* ============================================================ RateLimiter

\* limiter.py:125-126: pop the front while it is at least one second old.
LeakTooEarly(b) == IF b # <<>> /\ b[1] >= TicksPerSec - 1 THEN Tail(b) ELSE b

RECURSIVE Leak(_)
Leak(b) == IF b # <<>> /\ b[1] >= TicksPerSec THEN Leak(Tail(b)) ELSE b

\* limiter.py:129-131
EffectiveLimitStatic(maxreq, rem) == maxreq

EffectiveLimit(maxreq, rem) ==
    IF rem # None /\ rem[1] < maxreq THEN rem[1] ELSE maxreq

\* limiter.py:134
BucketFullOffByOne(b, lim) == Len(b) > lim

BucketFull(b, lim) == Len(b) >= lim

\* limiter.py:134 and 159-163: the test of a pass of wait_if_needed, which the
\* recursive call after the sleep makes again as the caller's entry did.
MustWaitOnEntryOnly(b, lim, first) == first /\ BucketFull(b, lim)

MustWait(b, lim, first) == BucketFull(b, lim)

\* limiter.py:142-148, in tenths of a tick: time until the oldest request
\* expires, or 0.1 s when the bucket is empty.
BaseWait10(b) ==
    IF b # <<>> THEN 10 * Max(0, TicksPerSec - b[1]) ELSE TicksPerSec

\* limiter.py:151-155, in tenths of a tick.
WaitTime10WithoutBaseDelay(b, rc) ==
    Min(BaseWait10(b) * Pow2(rc), 10 * max_delay * TicksPerSec)

WaitTime10(b, rc) ==
    Min(BaseWait10(b) * Pow2(rc) + (10 * base_delay * TicksPerSec) * Pow2(rc),
        10 * max_delay * TicksPerSec)

\* limiter.py:157
NextRetryCountUncapped(rc) == rc + 1

NextRetryCount(rc) == Min(rc + 1, max_retries)

\* asyncio.sleep(wait_time) returns no earlier than wait_time: whole ticks.
SleepTicks(w10) == (w10 + 9) \div 10

\* ---- Remaining-Req headers.  A header value is abstracted to what
\* parse_remaining_req reads of it: the group token, the min token and the
\* sec token, each absent ("none"), and min/sec possibly not a number ("bad").
OwnGroup == "own"

\* A min or sec token: absent, not a number, or a number.
NumTokens(hi) ==
    {[kind |-> "none", val |-> 0], [kind |-> "bad", val |-> 0]} \cup
    {[kind |-> "num", val |-> k] : k \in 0..hi}

HeaderValues ==
    [group : {"none", OwnGroup, "other"},
     min   : NumTokens(0),
     sec   : NumTokens(MaxSec)]

\* The headers dictionary: no Remaining-Req entry (or an empty one), or a value.
Headers ==
    {[present |-> FALSE, value |-> v] :
        v \in {[group |-> "none", min |-> m, sec |-> m] : m \in NumTokens(-1)}}
    \cup {[present |-> TRUE, value |-> v] : v \in HeaderValues}

\* limiter.py:15-67: the parsed dictionary, or ValueError.
ParseRemainingReq(v) ==
    IF v.min.kind = "bad" \/ v.sec.kind = "bad"
    THEN [error |-> TRUE, group |-> "none", hasSec |-> FALSE, sec |-> 0]
    ELSE IF v.group = "none"
    THEN [error |-> TRUE, group |-> "none", hasSec |-> FALSE, sec |-> 0]
    ELSE IF v.sec.kind = "none" /\ v.min.kind = "none"
    THEN [error |-> TRUE, group |-> v.group, hasSec |-> FALSE, sec |-> 0]
    ELSE [error |-> FALSE, group |-> v.group,
          hasSec |-> (v.sec.kind = "num"), sec |-> v.sec.val]

\* No Remaining-Req entry in the headers dictionary.
NoHeader ==
    [present |-> FALSE,
     value |-> [group |-> "none", min |-> [kind |-> "none", val |-> 0],
                sec |-> [kind |-> "none", val |-> 0]]]

\* limiter.py:200-202: the exceptions update_from_headers swallows.
CaughtNothing(exc) == FALSE

Caught(exc) == exc = "ValueError"

\* limiter.py:185-202: update_from_headers returns ("observe") or lets the
\* parser's exception escape ("observe_raise").
ObserveOutcome(h) ==
    IF h.present /\ ParseRemainingReq(h.value).error /\ ~Caught("ValueError")
    THEN "observe_raise" ELSE "observe"

\* limiter.py:169-202: the value of self.remaining after update_from_headers.
UpdatedRemainingFromMin(rem, h) ==
    IF h.present /\ h.value.min.kind = "num" THEN Some(h.value.min.val) ELSE rem

UpdatedRemaining(rem, h) ==
    IF ~h.present THEN rem
    ELSE LET parsed == ParseRemainingReq(h.value) IN
         IF parsed.error THEN rem
         ELSE IF parsed.group # OwnGroup THEN rem
         ELSE IF parsed.hasSec THEN Some(parsed.sec)
         ELSE rem

\* ---- history: the ages of the requests admitted since construction or the
\* last reset() that are younger than one second.
Aged(s) == [i \in 1..Len(s) |-> Min(s[i] + 1, TicksPerSec)]

InWindow(s) == SelectSeq(s, LAMBDA a : a < TicksPerSec)

LimTypeOK ==
    /\ max_requests \in 1..MaxCap
    /\ auto_retry \in BOOLEAN
    /\ remaining \in {None} \cup {Some(k) : k \in 0..MaxSec}
    /\ bucket \in Seq(0..TicksPerSec)
    /\ retry_count \in 0..max_retries
    /\ callers \subseteq Tasks
    /\ pc \in [Tasks -> {"idle", "sleeping"}]
    /\ sleepLeft \in [Tasks -> 0..(max_delay * TicksPerSec)]

\* limiter.py:84-109: a fresh limiter, for every max_requests and auto_retry.
LimInitWith(cs) ==
    /\ max_requests \in 1..MaxCap
    /\ auto_retry \in BOOLEAN
    /\ remaining = None
    /\ bucket = <<>>
    /\ retry_count = 0
    /\ callers = cs
    /\ pc = [t \in Tasks |-> "idle"]
    /\ sleepLeft = [t \in Tasks |-> 0]
    /\ lastOp = [op |-> "init", task |-> "t1", hdr |-> NoHeader]
    /\ admits = <<>>
    /\ waited = [t \in Tasks |-> FALSE]

\* limiter.py:122-167: one pass of wait_if_needed by task t, from reading the
\* clock to returning, raising, or suspending in asyncio.sleep.  `first` tells
\* the caller's entry from the recursive call after the sleep.
Attempt(t, first) ==
    LET b   == Leak(bucket)
        lim == EffectiveLimit(max_requests, remaining)
        w   == [waited EXCEPT ![t] = IF first THEN FALSE ELSE @]
    IN  IF MustWait(b, lim, first)
        THEN IF ~auto_retry
             THEN /\ bucket' = b
                  /\ pc' = [pc EXCEPT ![t] = "idle"]
                  /\ waited' = w
                  /\ lastOp' = [op |-> "raise", task |-> t, hdr |-> NoHeader]
                  /\ UNCHANGED <<retry_count, sleepLeft, admits>>
             ELSE /\ bucket' = b
                  /\ retry_count' = NextRetryCount(retry_count)
                  /\ sleepLeft' = [sleepLeft EXCEPT
                                     ![t] = SleepTicks(WaitTime10(b, retry_count))]
                  /\ pc' = [pc EXCEPT ![t] = "sleeping"]
                  /\ waited' = [waited EXCEPT ![t] = TRUE]
                  /\ lastOp' = [op |-> "wait", task |-> t, hdr |-> NoHeader]
                  /\ UNCHANGED admits
        ELSE /\ retry_count' = 0
             /\ bucket' = Append(b, 0)
             /\ admits' = Append(admits, 0)
             /\ pc' = [pc EXCEPT ![t] = "idle"]
             /\ waited' = w
             /\ lastOp' = [op |-> "admit", task |-> t, hdr |-> NoHeader]
             /\ UNCHANGED sleepLeft

\* A caller enters wait_if_needed (limiter.py:111).
Acquire(t) ==
    /\ t \in callers
    /\ pc[t] = "idle"
    /\ Attempt(t, TRUE)
    /\ UNCHANGED <<max_requests, auto_retry, remaining, callers>>
    /\ UNCHANGED <<wsVars, reqVars>>

\* asyncio.sleep has returned: the recursive call (limiter.py:159-163).
Wake(t) ==
    /\ pc[t] = "sleeping"
    /\ sleepLeft[t] = 0
    /\ Attempt(t, FALSE)
    /\ UNCHANGED <<max_requests, auto_retry, remaining, callers>>
    /\ UNCHANGED <<wsVars, reqVars>>

\* limiter.py:169-202: update_from_headers with any headers dictionary.
Observe(h) ==
    /\ remaining' = UpdatedRemaining(remaining, h)
    /\ lastOp' = [op |-> ObserveOutcome(h), task |-> "t1", hdr |-> h]
    /\ UNCHANGED <<max_requests, auto_retry, bucket, retry_count, callers, pc,
                   sleepLeft, admits, waited>>
    /\ UNCHANGED <<wsVars, reqVars>>

\* limiter.py:204-212
ResetKeepsRemaining ==
    /\ bucket' = <<>>
    /\ retry_count' = 0
    /\ admits' = <<>>
    /\ lastOp' = [op |-> "reset", task |-> "t1", hdr |-> NoHeader]
    /\ UNCHANGED <<max_requests, auto_retry, remaining, callers, pc, sleepLeft,
                   waited>>
    /\ UNCHANGED <<wsVars, reqVars>>

Reset ==
    /\ bucket' = <<>>
    /\ retry_count' = 0
    /\ remaining' = None
    /\ admits' = <<>>
    /\ lastOp' = [op |-> "reset", task |-> "t1", hdr |-> NoHeader]
    /\ UNCHANGED <<max_requests, auto_retry, callers, pc, sleepLeft, waited>>
    /\ UNCHANGED <<wsVars, reqVars>>

\* One tick of time.time(): every stored timestamp is one tick older and
\* every sleeper one tick closer to its wake-up.
Tick ==
    /\ bucket' = Aged(bucket)
    /\ admits' = InWindow(Aged(admits))
    /\ sleepLeft' = [t \in Tasks |-> Max(0, sleepLeft[t] - 1)]
    /\ lastOp' = [op |-> "tick", task |-> "t1", hdr |-> NoHeader]
    /\ UNCHANGED <<max_requests, auto_retry, remaining, retry_count, callers,
                   pc, waited>>
    /\ UNCHANGED <<wsVars, reqVars>>



\* ======================================================== request executors

\* _client_base.py:85-93
EXCHANGE_PREFIXES ==
    <<<<"/", "v", "1", "/", "o", "r", "d", "e", "r", "s">>,
      <<"/", "v", "1", "/", "o", "r", "d", "e", "r">>,
      <<"/", "v", "1", "/", "a", "c", "c", "o", "u", "n", "t", "s">>,
      <<"/", "v", "1", "/", "w", "i", "t", "h", "d", "r", "a", "w", "s">>,
      <<"/", "v", "1", "/", "w", "i", "t", "h", "d", "r", "a", "w">>,
      <<"/", "v", "1", "/", "d", "e", "p", "o", "s", "i", "t", "s">>,
      <<"/", "v", "1", "/", "d", "e", "p", "o", "s", "i", "t">>>>

\* The endpoints the services request, with the service that owns each
\* (services/quotation.py:166, 180; services/exchange.py:50, 60, 92).
Paths ==
    {[service |-> "quotation", chars |-> <<"/", "v", "1", "/", "t", "i", "c", "k", "e", "r">>],
     [service |-> "quotation", chars |-> <<"/", "v", "1", "/", "o", "r", "d", "e", "r", "b", "o", "o", "k">>],
     [service |-> "exchange", chars |-> <<"/", "v", "1", "/", "o", "r", "d", "e", "r", "s">>],
     [service |-> "exchange", chars |-> <<"/", "v", "1", "/", "a", "c", "c", "o", "u", "n", "t", "s">>],
     [service |-> "exchange", chars |-> <<"/", "v", "1", "/", "a", "p", "i", "_", "k", "e", "y", "s">>]}

Clients == {"sync", "async"}

Methods == {"GET", "POST", "DELETE"}

\* str.startswith
StartsWith(str, prefix) ==
    Len(prefix) <= Len(str) /\ SubSeq(str, 1, Len(prefix)) = prefix

\* _client_base.py:139-151: the limiter _get_limiter_for_path returns.
LimiterForPath(chars) ==
    IF \E i \in 1..Len(EXCHANGE_PREFIXES) : StartsWith(chars, EXCHANGE_PREFIXES[i])
    THEN "exchange" ELSE "quotation"

Event(e, l) == [ev |-> e, limiter |-> l]

NoReq == [client |-> "sync", method |-> "GET",
          path |-> [service |-> "quotation", chars |-> <<>>]]

ReqInit ==
    /\ req = NoReq
    /\ reqPc = "idle"
    /\ trace = <<>>

\* =========================================================== UpbitWebSocket

NoConn == 0

ConnIds == 1..MaxConns

Tickets == {"a", "b"}

ChannelLists == {<<"ticker">>}

\* One tracked subscription: (ticket, channels).
Entries == [ticket : Tickets, channels : ChannelLists]

NoEntry == [ticket |-> "a", channels |-> <<"ticker">>]

IsOpen(c) == c # NoConn /\ conn[c] = "open"

FreshConns == {c \in ConnIds : conn[c] = "new"}

\* The connection a successful websockets.connect returns.
NewConn == CHOOSE c \in FreshConns : \A d \in FreshConns : c <= d

\* websocket/client.py:97: self.running once websockets.connect has returned.
RunningLeftAsIs == running

RunningAfterConnect == TRUE

\* websocket/client.py:98: self._reconnect_delay once websockets.connect has
\* returned.
DelayLeftAsIs == reconnect_delay

DelayAfterConnect == RECONNECT_DELAY

\* websocket/client.py:240 and :248
NextDelayUncapped(d) == d * 2

NextDelay(d) == Min(d * 2, MAX_RECONNECT_DELAY)

\* A key the constructor was given: None ("none"), the empty string, or a key.
Keys == {"none", "", "key"}

\* Python's truth value of a key (websocket/client.py:128).
Truthy(k) == k \notin {"none", ""}

ChannelTypes == {"ticker", "myOrder", "myAsset"}

\* websocket/client.py:129
HasPrivateChannelFirstOnly(channels) ==
    channels # <<>> /\ channels[1] \in {"myOrder", "myAsset"}

HasPrivateChannel(channels) ==
    \E i \in 1..Len(channels) : channels[i] \in {"myOrder", "myAsset"}

\* auth.py:88-163: generate_jwt_token, by what the token is made from: the
\* access key in its payload, the payload's hash of the query or body, and the
\* secret key it is signed with.
GenerateJwtToken(ak, sk, query_params, body) ==
    [access_key |-> ak,
     query_hash |-> IF body # "none" THEN body
                    ELSE IF query_params # "none" THEN query_params
                    ELSE "none",
     signed_with |-> sk]

\* websocket/client.py:126-132: the first element of the frame subscribe sends.
TicketMsg(ak, sk, ticket, channels) ==
    IF Truthy(ak) /\ Truthy(sk) /\ HasPrivateChannel(channels)
    THEN [ticket |-> ticket, auth |-> GenerateJwtToken(ak, sk, "none", "none")]
    ELSE [ticket |-> ticket]

\* No subscribe call in progress.
NoMsg == [ticket |-> "none"]

\* websocket/client.py:123: subscribe goes on only with a connection handle.
HasConnectionAlways(w) == TRUE

HasConnection(w) == w # NoConn

\* websocket/client.py:165
WithoutFirstOfTicket(subs, ticket) ==
    IF \E i \in 1..Len(subs) : subs[i].ticket = ticket
    THEN LET k == CHOOSE i \in 1..Len(subs) :
                     /\ subs[i].ticket = ticket
                     /\ \A j \in 1..(i - 1) : subs[j].ticket # ticket
         IN  SubSeq(subs, 1, k - 1) \o SubSeq(subs, k + 1, Len(subs))
    ELSE subs

WithoutTicket(subs, ticket) ==
    SelectSeq(subs, LAMBDA e : e.ticket # ticket)

\* websocket/client.py:151-165: where unsubscribe leaves its caller, with
\* self.websocket = w: it has no await and no send, so the call is over.
AfterUnsubscribeSends(w) == IF w = NoConn THEN "idle" ELSE "sending"

AfterUnsubscribe(w) == "idle"

\* websocket/client.py:260: self.websocket once the transport's close has
\* returned.
HandleLeftAfterClose == websocket

HandleAfterClose == NoConn

\* websocket/client.py:169: the snapshot _resubscribe replays.
SnapshotDropsFirst(subs) == IF subs = <<>> THEN subs ELSE Tail(subs)

Snapshot(subs) == subs

\* websocket/client.py:218-225: from the `while self.running` test to the next
\* suspension, with self.running = r and self.websocket = w.
LoopTopPc(r, w) ==
    IF ~r THEN "done" ELSE IF w = NoConn THEN "connecting" ELSE "recv"

RunReturned == {"idle", "done", "raised", "cancelled"}

\* websocket/client.py:65-81: UpbitWebSocket(access_key, secret_key).
WsInitWith(ak, sk) ==
    /\ access_key = ak
    /\ secret_key = sk
    /\ callerMsg = NoMsg
    /\ websocket = NoConn
    /\ subscriptions = <<>>
    /\ running = FALSE
    /\ reconnect_delay = RECONNECT_DELAY
    /\ runPc = "idle"
    /\ subs_to_restore = <<>>
    /\ replayIdx = 0
    /\ sendConn = NoConn
    /\ iterConn = NoConn
    /\ conn = [c \in ConnIds |-> "new"]
    /\ callerPc = "idle"
    /\ callerEntry = NoEntry
    /\ callerConn = NoConn
    /\ callerResult = "none"
    /\ desired = <<>>
    /\ interfered = FALSE
    /\ sinceFailure = "none"
    /\ atFailure = <<>>
    /\ replayed = <<>>
    /\ closeReturned = FALSE
    /\ cancelLeftOpen = FALSE
    /\ sleepFor = 0
    /\ streak = 0
    /\ taken = 0
    /\ lastCb = 0
    /\ cbDone = 0

\* UpbitWebSocket() without credentials.
WsInit == WsInitWith("none", "none")

\* A limiter nobody calls, for the behaviours of the session alone.
LimIdle ==
    /\ max_requests = MaxCap
    /\ auto_retry = TRUE
    /\ remaining = None
    /\ bucket = <<>>
    /\ retry_count = 0
    /\ callers = {}
    /\ pc = [t \in Tasks |-> "idle"]
    /\ sleepLeft = [t \in Tasks |-> 0]
    /\ lastOp = [op |-> "init", task |-> "t1", hdr |-> NoHeader]
    /\ admits = <<>>
    /\ waited = [t \in Tasks |-> FALSE]

\* The variables no step of run's task touches.
callerSide == <<callerPc, callerEntry, callerConn, desired, interfered,
                closeReturned, callerResult, access_key, secret_key,
                callerMsg>>

\* The locals of _resubscribe are gone once it is left.
NoReplayLocals ==
    /\ subs_to_restore' = <<>>
    /\ replayIdx' = 0
    /\ sendConn' = NoConn

\* websocket/client.py:227: a new `async for` starts at the head of what the
\* connection has still to deliver.
NewIteration ==
    /\ taken' = 0
    /\ lastCb' = 0
    /\ cbDone' = 0

\* websocket/client.py:227: the message `async for` yields after it has
\* yielded k of them is the next one the connection received.
NextMessageAgain(k) == IF k = 0 THEN 1 ELSE k

NextMessage(k) == k + 1

\* websocket/client.py:236-250: the except clauses of run for a failure raised
\* inside the try block.  kind "closed" is websockets' ConnectionClosed, kind
\* "error" any other Exception; subs is self.subscriptions at that moment.
HandleErrorEscalates(kind, subs) ==
    /\ NoReplayLocals
    /\ NewIteration
    /\ iterConn' = NoConn
    /\ replayed' = <<>>
    /\ IF running /\ kind = "closed"
       THEN /\ websocket' = NoConn
            /\ runPc' = "backoff"
            /\ sleepFor' = reconnect_delay
            /\ atFailure' = subs
            /\ sinceFailure' = "clean"
       ELSE /\ runPc' = IF kind = "closed" THEN "done" ELSE "raised"
            /\ websocket' = websocket
            /\ sleepFor' = 0
            /\ atFailure' = <<>>
            /\ sinceFailure' = "none"

Handle(kind, subs) ==
    /\ NoReplayLocals
    /\ NewIteration
    /\ iterConn' = NoConn
    /\ replayed' = <<>>
    /\ IF running
       THEN /\ websocket' = NoConn
            /\ runPc' = "backoff"
            /\ sleepFor' = reconnect_delay
            /\ atFailure' = subs
            /\ sinceFailure' = "clean"
       ELSE /\ runPc' = IF kind = "closed" THEN "done" ELSE "raised"
            /\ websocket' = websocket
            /\ sleepFor' = 0
            /\ atFailure' = <<>>
            /\ sinceFailure' = "none"

\* websocket/client.py:218-227: the while loop goes round, with
\* self.running = r and self.websocket = w, up to its next suspension.
GoTop(r, w) ==
    /\ runPc' = LoopTopPc(r, w)
    /\ NoReplayLocals
    /\ NewIteration
    /\ iterConn' = IF runPc' = "recv" THEN w ELSE NoConn
    /\ replayed' = <<>>
    /\ sleepFor' = 0
    /\ IF runPc' = "connecting"
       THEN UNCHANGED <<atFailure, sinceFailure>>
       ELSE atFailure' = <<>> /\ sinceFailure' = "none"

\* run(callback) is called (websocket/client.py:201-218).
RunStart ==
    /\ runPc \in RunReturned
    /\ GoTop(running, websocket)
    /\ UNCHANGED <<websocket, subscriptions, running, reconnect_delay, conn,
                   cancelLeftOpen, streak>>
    /\ UNCHANGED callerSide
    /\ UNCHANGED <<limVars, reqVars>>

\* run: websockets.connect returned a connection (client.py:92-98), then
\* _resubscribe up to its first send (client.py:169-173, 123-148).
RunConnectOk ==
    /\ runPc = "connecting"
    /\ FreshConns # {}
    /\ LET c == NewConn
           snap == Snapshot(subscriptions)
       IN /\ conn' = [conn EXCEPT ![c] = "open"]
          /\ websocket' = c
          /\ running' = RunningAfterConnect
          /\ reconnect_delay' = DelayAfterConnect
          /\ streak' = 0
          /\ cancelLeftOpen' = FALSE
          /\ subscriptions' = <<>>
          /\ replayed' = <<>>
          /\ sleepFor' = 0
          /\ NewIteration
          /\ IF snap = <<>>
             THEN /\ runPc' = "recv"
                  /\ iterConn' = c
                  /\ NoReplayLocals
                  /\ UNCHANGED <<atFailure, sinceFailure>>
             ELSE /\ runPc' = "resub"
                  /\ subs_to_restore' = snap
                  /\ replayIdx' = 1
                  /\ sendConn' = c
                  /\ UNCHANGED <<iterConn, atFailure, sinceFailure>>
    /\ UNCHANGED callerSide
    /\ UNCHANGED <<limVars, reqVars>>

\* run: websockets.connect raised; connect wraps it in UpbitError
\* (client.py:99-100), which run's `except Exception` receives.
RunConnectFail ==
    /\ runPc = "connecting"
    /\ Handle("error", subscriptions)
    /\ UNCHANGED <<subscriptions, running, reconnect_delay, conn,
                   cancelLeftOpen, streak>>
    /\ UNCHANGED callerSide
    /\ UNCHANGED <<limVars, reqVars>>

\* _resubscribe: the send of entry replayIdx returned (client.py:148-149),
\* then on to the next entry's send, or out of _resubscribe into the loop.
RunSendOk ==
    /\ runPc = "resub"
    /\ IsOpen(sendConn)
    /\ LET e == subs_to_restore[replayIdx]
           subs == Append(subscriptions, e)
       IN /\ subscriptions' = subs
          /\ IF replayIdx < Len(subs_to_restore)
             THEN IF websocket = NoConn
                  THEN Handle("error", subs)
                  ELSE /\ replayIdx' = replayIdx + 1
                       /\ NewIteration
                       /\ sendConn' = websocket
                       /\ replayed' = Append(replayed, e)
                       /\ UNCHANGED <<runPc, websocket, iterConn, sleepFor,
                                      atFailure, sinceFailure,
                                      subs_to_restore>>
             ELSE /\ runPc' = IF websocket = NoConn
                              THEN LoopTopPc(running, NoConn) ELSE "recv"
                  /\ iterConn' = IF runPc' = "recv" THEN websocket ELSE NoConn
                  /\ NoReplayLocals
                  /\ NewIteration
                  /\ replayed' = IF runPc' = "recv" THEN Append(replayed, e)
                                 ELSE <<>>
                  /\ atFailure' = IF runPc' = "done" THEN <<>> ELSE atFailure
                  /\ sinceFailure' = IF runPc' = "done" THEN "none"
                                     ELSE sinceFailure
                  /\ UNCHANGED <<websocket, sleepFor>>
    /\ UNCHANGED <<running, reconnect_delay, conn, cancelLeftOpen, streak>>
    /\ UNCHANGED callerSide
    /\ UNCHANGED <<limVars, reqVars>>

\* _resubscribe: the send raised ConnectionClosed (client.py:148, 236-240).
RunSendFail ==
    /\ runPc = "resub"
    /\ ~IsOpen(sendConn)
    /\ Handle("closed", subscriptions)
    /\ UNCHANGED <<subscriptions, running, reconnect_delay, conn,
                   cancelLeftOpen, streak>>
    /\ UNCHANGED callerSide
    /\ UNCHANGED <<limVars, reqVars>>

\* run: the next message arrived and was decoded and parsed (client.py:
\* 227-234); a payload that json.loads or the model rejects raises.
RunRecv(ok) ==
    /\ runPc = "recv"
    /\ IsOpen(iterConn)
    /\ IF ok
       THEN /\ taken < MaxMsgs
            /\ runPc' = "callback"
            /\ taken' = NextMessage(taken)
            /\ lastCb' = taken'
            /\ UNCHANGED cbDone
            /\ replayed' = <<>>
            /\ atFailure' = <<>>
            /\ sinceFailure' = "none"
            /\ UNCHANGED <<websocket, sleepFor, subs_to_restore, replayIdx,
                           sendConn, iterConn>>
       ELSE Handle("error", subscriptions)
    /\ UNCHANGED <<subscriptions, running, reconnect_delay, conn,
                   cancelLeftOpen, streak>>
    /\ UNCHANGED callerSide
    /\ UNCHANGED <<limVars, reqVars>>

\* run: the iteration raised ConnectionClosed (client.py:236-240).
RunIterClosed ==
    /\ runPc = "recv"
    /\ conn[iterConn] = "closed_err"
    /\ Handle("closed", subscriptions)
    /\ UNCHANGED <<subscriptions, running, reconnect_delay, conn,
                   cancelLeftOpen, streak>>
    /\ UNCHANGED callerSide
    /\ UNCHANGED <<limVars, reqVars>>

\* run: the iteration ended without an exception (the connection was closed
\* normally), so the while loop goes round (client.py:227, 218-225).
RunIterEnd ==
    /\ runPc = "recv"
    /\ conn[iterConn] = "closed_ok"
    /\ GoTop(running, websocket)
    /\ UNCHANGED <<websocket, subscriptions, running, reconnect_delay, conn,
                   cancelLeftOpen, streak>>
    /\ UNCHANGED callerSide
    /\ UNCHANGED <<limVars, reqVars>>

\* run: the callback returned, or raised (client.py:234, 244-250).
RunCallback(ok) ==
    /\ runPc = "callback"
    /\ IF ok
       THEN /\ runPc' = "recv"
            /\ cbDone' = lastCb
            /\ UNCHANGED <<websocket, sleepFor, atFailure, sinceFailure,
                           subs_to_restore, replayIdx, sendConn, iterConn,
                           replayed, taken, lastCb>>
       ELSE Handle("error", subscriptions)
    /\ UNCHANGED <<subscriptions, running, reconnect_delay, conn,
                   cancelLeftOpen, streak>>
    /\ UNCHANGED callerSide
    /\ UNCHANGED <<limVars, reqVars>>

\* run: the backoff sleep is over (client.py:239-240 and 247-248), then the
\* while loop goes round.
RunWake ==
    /\ runPc = "backoff"
    /\ reconnect_delay' = NextDelay(reconnect_delay)
    /\ streak' = Min(streak + 1, MaxStreak)
    /\ GoTop(running, websocket)
    /\ UNCHANGED <<websocket, subscriptions, running, conn, cancelLeftOpen>>
    /\ UNCHANGED callerSide
    /\ UNCHANGED <<limVars, reqVars>>

\* run's task is cancelled while suspended.  Inside the try block the
\* CancelledError reaches client.py:241-243; in the backoff sleep it is raised
\* inside an except clause, which no clause of the same try receives.
RunCancel ==
    /\ runPc \in {"connecting", "resub", "recv", "callback", "backoff"}
    /\ runPc' = "cancelled"
    /\ IF runPc = "backoff"
       THEN UNCHANGED <<running, cancelLeftOpen>>
       ELSE /\ running' = FALSE
            /\ cancelLeftOpen' = (websocket # NoConn)
    /\ NoReplayLocals
    /\ NewIteration
    /\ iterConn' = NoConn
    /\ replayed' = <<>>
    /\ sleepFor' = 0
    /\ atFailure' = <<>>
    /\ sinceFailure' = "none"
    /\ UNCHANGED <<websocket, subscriptions, reconnect_delay, conn, streak>>
    /\ UNCHANGED callerSide
    /\ UNCHANGED <<limVars, reqVars>>

\* The variables of run's task.
runSide == <<runPc, subs_to_restore, replayIdx, sendConn, iterConn, atFailure,
             replayed, sleepFor, taken, lastCb, cbDone>>

\* A call of the caller between a failure and the end of the replay after it.
Touch ==
    sinceFailure' = IF sinceFailure = "none" THEN "none" ELSE "touched"

\* The peer or the network ends an open connection, with a normal close
\* ("closed_ok") or not ("closed_err").
Drop(c, how) ==
    /\ conn[c] = "open"
    /\ conn' = [conn EXCEPT ![c] = how]
    /\ UNCHANGED <<websocket, subscriptions, running, reconnect_delay,
                   sinceFailure, cancelLeftOpen, streak>>
    /\ UNCHANGED runSide
    /\ UNCHANGED callerSide
    /\ UNCHANGED <<limVars, reqVars>>

\* The caller calls connect() (client.py:83-92) and waits for the transport.
CallerConnect ==
    /\ callerPc = "idle"
    /\ callerPc' = "connecting"
    /\ Touch
    /\ closeReturned' = FALSE
    /\ UNCHANGED <<websocket, subscriptions, running, reconnect_delay, conn,
                   callerEntry, callerConn, desired, interfered,
                   cancelLeftOpen, streak>>
    /\ callerResult' = "none"
    /\ UNCHANGED <<access_key, secret_key>>
    /\ UNCHANGED callerMsg
    /\ UNCHANGED runSide
    /\ UNCHANGED <<limVars, reqVars>>

\* client.py:92-98
CallerConnectOk ==
    /\ callerPc = "connecting"
    /\ FreshConns # {}
    /\ conn' = [conn EXCEPT ![NewConn] = "open"]
    /\ websocket' = NewConn
    /\ running' = RunningAfterConnect
    /\ reconnect_delay' = DelayAfterConnect
    /\ streak' = 0
    /\ cancelLeftOpen' = FALSE
    /\ callerPc' = "idle"
    /\ UNCHANGED <<subscriptions, callerEntry, callerConn, desired,
                   interfered, sinceFailure, closeReturned>>
    /\ callerResult' = "ok"
    /\ UNCHANGED <<access_key, secret_key>>
    /\ UNCHANGED callerMsg
    /\ UNCHANGED runSide
    /\ UNCHANGED <<limVars, reqVars>>

\* client.py:99-100
CallerConnectFail ==
    /\ callerPc = "connecting"
    /\ callerPc' = "idle"
    /\ UNCHANGED <<websocket, subscriptions, running, reconnect_delay, conn,
                   callerEntry, callerConn, desired, interfered,
                   sinceFailure, closeReturned, cancelLeftOpen, streak>>
    /\ callerResult' = "connect_failed"
    /\ UNCHANGED <<access_key, secret_key>>
    /\ UNCHANGED callerMsg
    /\ UNCHANGED runSide
    /\ UNCHANGED <<limVars, reqVars>>

\* The entries subscriptions will hold once a replay in progress is through.
PendingLen ==
    Len(subscriptions) +
    (IF runPc = "resub" THEN Len(subs_to_restore) - replayIdx + 1 ELSE 0)

\* The caller calls subscribe(ticket, channels) (client.py:123-148): not
\* connected, or suspended in the send.
CallerSubscribe(e) ==
    /\ callerPc = "idle"
    /\ PendingLen < MaxSubs
    /\ Len(desired) < MaxSubs
    /\ IF ~HasConnection(websocket)
       THEN UNCHANGED <<callerPc, callerEntry, callerConn, sinceFailure>>
       ELSE /\ callerPc' = "sending"
            /\ callerEntry' = e
            /\ callerConn' = websocket
            /\ Touch
    /\ UNCHANGED <<websocket, subscriptions, running, reconnect_delay, conn,
                   desired, interfered, closeReturned, cancelLeftOpen,
                   streak>>
    /\ callerResult' = IF ~HasConnection(websocket) THEN "not_connected"
                       ELSE "none"
    /\ UNCHANGED <<access_key, secret_key>>
    /\ callerMsg' = IF ~HasConnection(websocket) THEN NoMsg
                    ELSE TicketMsg(access_key, secret_key, e.ticket, e.channels)
    /\ UNCHANGED runSide
    /\ UNCHANGED <<limVars, reqVars>>

\* client.py:148-149: the caller's send returned.
CallerSendOk ==
    /\ callerPc = "sending"
    /\ IsOpen(callerConn)
    /\ subscriptions' = Append(subscriptions, callerEntry)
    /\ desired' = Append(desired, callerEntry)
    /\ interfered' = (interfered \/ runPc = "resub")
    /\ callerPc' = "idle"
    /\ callerEntry' = NoEntry
    /\ callerConn' = NoConn
    /\ Touch
    /\ UNCHANGED <<websocket, running, reconnect_delay, conn, closeReturned,
                   cancelLeftOpen, streak>>
    /\ callerResult' = "subscribed"
    /\ UNCHANGED <<access_key, secret_key>>
    /\ callerMsg' = NoMsg
    /\ UNCHANGED runSide
    /\ UNCHANGED <<limVars, reqVars>>

\* client.py:148: the caller's send raised.
CallerSendFail ==
    /\ callerPc = "sending"
    /\ ~IsOpen(callerConn)
    /\ callerPc' = "idle"
    /\ callerEntry' = NoEntry
    /\ callerConn' = NoConn
    /\ UNCHANGED <<websocket, subscriptions, running, reconnect_delay, conn,
                   desired, interfered, sinceFailure, closeReturned,
                   cancelLeftOpen, streak>>
    /\ callerResult' = "send_failed"
    /\ UNCHANGED <<access_key, secret_key>>
    /\ callerMsg' = NoMsg
    /\ UNCHANGED runSide
    /\ UNCHANGED <<limVars, reqVars>>

\* client.py:151-165: unsubscribe awaits nothing, so it is back at its caller
\* in the same step, whatever self.websocket is.
CallerUnsubscribe(ticket) ==
    /\ callerPc = "idle"
    /\ subscriptions' = WithoutTicket(subscriptions, ticket)
    /\ desired' = WithoutTicket(desired, ticket)
    /\ interfered' = (interfered \/ runPc = "resub")
    /\ Touch
    /\ callerPc' = AfterUnsubscribe(websocket)
    /\ UNCHANGED <<websocket, running, reconnect_delay, conn,
                   callerEntry, callerConn, closeReturned, cancelLeftOpen,
                   streak>>
    /\ callerResult' = IF subscriptions' # subscriptions THEN "removed"
                       ELSE "ok"
    /\ UNCHANGED <<access_key, secret_key>>
    /\ UNCHANGED callerMsg
    /\ UNCHANGED runSide
    /\ UNCHANGED <<limVars, reqVars>>

\* The caller calls close() (client.py:252-259): it returns at once without a
\* connection, else it is suspended in the transport's close.
CallerClose ==
    /\ callerPc = "idle"
    /\ running' = FALSE
    /\ Touch
    /\ IF websocket = NoConn
       THEN /\ closeReturned' = TRUE
            /\ UNCHANGED <<callerPc, callerConn, conn>>
       ELSE /\ callerPc' = "closing"
            /\ callerConn' = websocket
            /\ conn' = [conn EXCEPT ![websocket] =
                           IF @ = "open" THEN "closed_ok" ELSE @]
            /\ UNCHANGED closeReturned
    /\ UNCHANGED <<websocket, subscriptions, reconnect_delay, callerEntry,
                   desired, interfered, cancelLeftOpen, streak>>
    /\ callerResult' = IF websocket = NoConn THEN "ok" ELSE "none"
    /\ UNCHANGED <<access_key, secret_key>>
    /\ UNCHANGED callerMsg
    /\ UNCHANGED runSide
    /\ UNCHANGED <<limVars, reqVars>>

\* client.py:259-260: the transport's close returned.
CallerCloseDone ==
    /\ callerPc = "closing"
    /\ websocket' = HandleAfterClose
    /\ callerPc' = "idle"
    /\ callerConn' = NoConn
    /\ closeReturned' = TRUE
    /\ cancelLeftOpen' = FALSE
    /\ UNCHANGED <<subscriptions, running, reconnect_delay, conn, callerEntry,
                   desired, interfered, sinceFailure, streak>>
    /\ callerResult' = "ok"
    /\ UNCHANGED <<access_key, secret_key>>
    /\ UNCHANGED callerMsg
    /\ UNCHANGED runSide
    /\ UNCHANGED <<limVars, reqVars>>

StreamInit == LimIdle /\ WsInit /\ ReqInit

StreamNext ==
    \/ RunStart
    \/ RunConnectOk
    \/ RunConnectFail
    \/ RunSendOk
    \/ RunSendFail
    \/ \E ok \in BOOLEAN : RunRecv(ok)
    \/ RunIterClosed
    \/ RunIterEnd
    \/ \E ok \in BOOLEAN : RunCallback(ok)
    \/ RunWake
    \/ RunCancel
    \/ \E c \in ConnIds, how \in {"closed_ok", "closed_err"} : Drop(c, how)
    \/ CallerConnect
    \/ CallerConnectOk
    \/ CallerConnectFail
    \/ \E e \in Entries : CallerSubscribe(e)
    \/ CallerSendOk
    \/ CallerSendFail
    \/ \E t \in Tickets : CallerUnsubscribe(t)
    \/ CallerClose
    \/ CallerCloseDone

StreamSpec == StreamInit /\ [][StreamNext]_vars

\* ---- subscribe's ticket frame, for every pair of keys and channel list.

\* The channels argument of subscribe: up to MaxChannels channel types.
FrameChannelLists ==
    UNION {[1..n -> ChannelTypes] : n \in 0..MaxChannels}

FrameEntries == [ticket : {"a"}, channels : FrameChannelLists]

FrameInit ==
    /\ LimIdle
    /\ ReqInit
    /\ \E ak \in Keys, sk \in Keys : WsInitWith(ak, sk)

FrameNext ==
    \/ CallerConnect
    \/ CallerConnectOk
    \/ \E e \in FrameEntries : CallerSubscribe(e)
    \/ \E c \in ConnIds, how \in {"closed_ok", "closed_err"} : Drop(c, how)
    \/ CallerSendFail

FrameSpec == FrameInit /\ [][FrameNext]_vars

\* ---- unsubscribe, for every tracked list of up to MaxTracked entries.

UnsubTickets == {"a", "b", "c"}

UnsubEntries == [ticket : UnsubTickets, channels : {<<"ticker">>, <<"myOrder">>}]

TrackedLists == UNION {[1..n -> UnsubEntries] : n \in 0..MaxTracked}

\* A session that tracked these subscriptions on its first connection and
\* was closed since (websocket/client.py:252-260 leaves subscriptions).
ClosedSessionWith(subs) ==
    /\ access_key = "none"
    /\ secret_key = "none"
    /\ callerMsg = NoMsg
    /\ websocket = NoConn
    /\ subscriptions = subs
    /\ running = FALSE
    /\ reconnect_delay = RECONNECT_DELAY
    /\ runPc = "idle"
    /\ subs_to_restore = <<>>
    /\ replayIdx = 0
    /\ sendConn = NoConn
    /\ iterConn = NoConn
    /\ conn = [c \in ConnIds |-> IF c = 1 THEN "closed_ok" ELSE "new"]
    /\ callerPc = "idle"
    /\ callerEntry = NoEntry
    /\ callerConn = NoConn
    /\ callerResult = "ok"
    /\ desired = subs
    /\ interfered = FALSE
    /\ sinceFailure = "none"
    /\ atFailure = <<>>
    /\ replayed = <<>>
    /\ closeReturned = TRUE
    /\ cancelLeftOpen = FALSE
    /\ sleepFor = 0
    /\ streak = 0
    /\ taken = 0
    /\ lastCb = 0
    /\ cbDone = 0

UnsubInit ==
    /\ LimIdle
    /\ ReqInit
    /\ \E subs \in TrackedLists : ClosedSessionWith(subs)

UnsubNext == \E t \in UnsubTickets : CallerUnsubscribe(t)

UnsubSpec == UnsubInit /\ [][UnsubNext]_vars

LimInit == LimInitWith({"t1"}) /\ WsInit /\ ReqInit

LimNext ==
    \/ \E t \in Tasks : Acquire(t)
    \/ \E t \in Tasks : Wake(t)
    \/ \E h \in Headers : Observe(h)
    \/ Reset
    \/ Tick

LimiterSpec == LimInit /\ [][LimNext]_vars


\* ------------------------------------------------ request executors: steps

\* client.py:111-112, 138-139, 165-166 (UpbitClient) and client.py:249-250,
\* 279-280, 309-310 (AsyncUpbitClient): _get/_post/_delete up to the first
\* point where the caller waits.
Request(client, method, path) ==
    /\ reqPc \in {"idle", "done", "raised"}
    /\ req' = [client |-> client, method |-> method, path |-> path]
    /\ IF client = "async"
       THEN /\ reqPc' = "acquiring"
            /\ trace' = <<>>
       ELSE /\ reqPc' = "network"
            /\ trace' = <<Event("network", "none")>>
    /\ UNCHANGED <<limVars, wsVars>>

\* AsyncUpbitClient: wait_if_needed returned, then the headers are built and
\* the HTTP call is made (client.py:250-253, 280-283, 310-313).
AcquireDone ==
    /\ reqPc = "acquiring"
    /\ trace' = trace \o <<Event("acquire", LimiterForPath(req.path.chars)),
                           Event("network", "none")>>
    /\ reqPc' = "network"
    /\ UNCHANGED req
    /\ UNCHANGED <<limVars, wsVars>>

\* The response arrived: _update_limiter_from_response, then
\* _handle_error_response (client.py:114-117 and the like;
\* _client_base.py:153-223).
Response(success) ==
    /\ reqPc = "network"
    /\ trace' = trace \o <<Event("observe", LimiterForPath(req.path.chars)),
                           Event(IF success THEN "return" ELSE "raise", "none")>>
    /\ reqPc' = IF success THEN "done" ELSE "raised"
    /\ UNCHANGED req
    /\ UNCHANGED <<limVars, wsVars>>

\* The HTTP call raised (no response).
NetworkError ==
    /\ reqPc = "network"
    /\ trace' = Append(trace, Event("neterror", "none"))
    /\ reqPc' = "raised"
    /\ UNCHANGED req
    /\ UNCHANGED <<limVars, wsVars>>

ExecInit == LimIdle /\ WsInit /\ ReqInit

ExecNext ==
    \/ \E c \in Clients, m \in Methods, p \in Paths : Request(c, m, p)
    \/ AcquireDone
    \/ \E ok \in BOOLEAN : Response(ok)
    \/ NetworkError

ExecSpec == ExecInit /\ [][ExecNext]_vars

\* The headers that set remaining: the limiter's own group with a sec value.
SecHeaders ==
    {h \in Headers : /\ h.present
                     /\ h.value.group = OwnGroup
                     /\ h.value.min.kind = "none"
                     /\ h.value.sec.kind = "num"}

\* The limiter under the responses that report a per-second quota.
LimFairNext ==
    \/ \E t \in Tasks : Acquire(t)
    \/ \E t \in Tasks : Wake(t)
    \/ \E h \in SecHeaders : Observe(h)
    \/ Reset
    \/ Tick

\* wait_if_needed resumes once its sleep is over, and the clock advances.
LimiterFairSpec ==
    /\ LimInit
    /\ [][LimFairNext]_vars
    /\ WF_vars(Tick)
    /\ \A t \in Tasks : WF_vars(Wake(t))

\* Two tasks call wait_if_needed on the same limiter, responses that report a
\* per-second quota arrive at any moment, and reset() may be called.
ConcInit == LimInitWith(Tasks) /\ WsInit /\ ReqInit

ConcurrentSpec == ConcInit /\ [][LimFairNext]_vars

\* ------------------------------------------------------- limiter properties

\* The requests of the bucket that are younger than one second.
Fresh(b) == Len(InWindow(b))

AcquireOps == {"admit", "raise", "wait"}

\* min(staticCapacity, serverRemaining), staticCapacity while unset.
Capacity ==
    IF remaining = None THEN max_requests ELSE Min(max_requests, remaining[1])

\* C1 (as stated): at every moment the number of requests admitted in the
\* trailing second is at most min(max_requests, remaining), max_requests while
\* remaining is unset.
C1_AsStated == Len(admits) <= Capacity

\* C1 (amended): the number of requests admitted in the trailing second never
\* exceeds max_requests, and at the moment of every admission it does not
\* exceed min(max_requests, remaining) as in force at that admission.
C1_AdmissionBound ==
    [][/\ Len(admits') <= max_requests'
       /\ lastOp'.op = "admit" => Len(admits') <= Capacity']_vars

\* A call was refused while the trailing second is full under a limit the
\* server reported.
C1_Witness ==
    /\ lastOp.op \in {"wait", "raise"}
    /\ remaining # None
    /\ remaining[1] < max_requests
    /\ Len(admits) >= 1
    /\ Len(admits) = Capacity

\* C5: every wait_if_needed call ends; in auto-retry mode, a call that waits
\* is admitted unless observe()/reset() is called meanwhile, whatever
\* remaining the server reported (0 included).
C5_AcquireTerminates ==
    \A t \in Tasks :
        [](pc[t] = "sleeping" =>
             <>(pc[t] = "idle" \/ lastOp.op \in {"observe", "reset"}))

\* C9: right after an admission the bucket holds at most the effective limit,
\* and it is the bucket's unexpired part followed by the call's own timestamp.
C9_AdmitAppendsOne ==
    [][lastOp'.op = "admit" =>
         /\ Len(bucket') <= Capacity
         /\ bucket' = Append(InWindow(bucket), 0)
         /\ admits' = Append(admits, 0)]_vars

C9_Witness ==
    /\ lastOp.op = "admit"
    /\ remaining # None
    /\ Len(bucket) = remaining[1]
    /\ remaining[1] < max_requests
    /\ Len(bucket) >= 1

\* C10: with auto_retry off, a call that finds the unexpired bucket at or over
\* the effective limit raises at once: no sleep, nothing appended,
\* retry_count and remaining untouched.
C10_RaiseWhenFull ==
    [][(/\ lastOp'.op \in AcquireOps
        /\ ~auto_retry
        /\ Fresh(bucket) >= Capacity) =>
         /\ lastOp'.op = "raise"
         /\ pc' = pc /\ sleepLeft' = sleepLeft
         /\ bucket' = InWindow(bucket)
         /\ admits' = admits
         /\ retry_count' = retry_count
         /\ remaining' = remaining]_vars

\* The server reported sec=0 and the call raised on an empty bucket.
C10_Witness ==
    /\ lastOp.op = "raise"
    /\ remaining = Some(0)
    /\ bucket = <<>>
    /\ ~auto_retry

ObserveOps == {"observe", "observe_raise"}

\* A Remaining-Req value that parses, names this limiter's group and has sec.
WellFormedOwnSec(h) ==
    /\ h.present
    /\ h.value.group = OwnGroup
    /\ h.value.sec.kind = "num"
    /\ h.value.min.kind # "bad"

\* C11: update_from_headers with a well-formed header of the limiter's own
\* group that carries sec sets remaining to sec; from then on a pass of
\* wait_if_needed admits exactly when the unexpired bucket is below sec if
\* sec < max_requests, and below max_requests otherwise.
C11_ObserveSetsCapacity ==
    [][/\ (lastOp'.op \in ObserveOps /\ WellFormedOwnSec(lastOp'.hdr)) =>
              remaining' = Some(lastOp'.hdr.value.sec.val)
       /\ (lastOp'.op \in AcquireOps /\ remaining # None) =>
              LET sec == remaining[1]
                  cap == IF sec < max_requests THEN sec ELSE max_requests
              IN  (lastOp'.op = "admit") <=> (Fresh(bucket) < cap)]_vars

\* A header just lowered the capacity below max_requests while requests of
\* the last second are in the bucket.
C11_Witness ==
    /\ lastOp.op = "observe"
    /\ WellFormedOwnSec(lastOp.hdr)
    /\ lastOp.hdr.value.sec.val < max_requests
    /\ remaining = Some(lastOp.hdr.value.sec.val)
    /\ bucket # <<>>

\* The headers the claim lists: no Remaining-Req entry, no group, neither min
\* nor sec, a non-numeric min or sec, another group, or min without sec.
Ignored(h) ==
    \/ ~h.present
    \/ h.value.group = "none"
    \/ h.value.min.kind = "none" /\ h.value.sec.kind = "none"
    \/ h.value.min.kind = "bad"
    \/ h.value.sec.kind = "bad"
    \/ h.value.group # OwnGroup
    \/ h.value.sec.kind = "none"

\* C12: update_from_headers never raises, never touches the bucket or
\* retry_count, and leaves remaining as it was for a header that is absent,
\* malformed, of another group, or without sec.
C12_ObserveIgnores ==
    [][lastOp'.op \in ObserveOps =>
         /\ lastOp'.op = "observe"
         /\ bucket' = bucket
         /\ retry_count' = retry_count
         /\ Ignored(lastOp'.hdr) => remaining' = remaining]_vars

\* A malformed header (non-numeric sec) was observed while remaining is set,
\* the bucket is not empty and a caller is backing off.
C12_Witness ==
    /\ lastOp.op = "observe"
    /\ lastOp.hdr.present
    /\ lastOp.hdr.value.group = OwnGroup
    /\ lastOp.hdr.value.sec.kind = "bad"
    /\ remaining # None
    /\ bucket # <<>>
    /\ retry_count > 0

\* C13: after reset() the limiter's state is that of a fresh limiter with the
\* same max_requests and auto_retry: empty bucket, remaining unset,
\* retry_count 0 (the state every later wait_if_needed and
\* update_from_headers is computed from).
C13_ResetIsFresh ==
    [][lastOp'.op = "reset" =>
         /\ bucket' = <<>>
         /\ remaining' = None
         /\ retry_count' = 0
         /\ max_requests' = max_requests
         /\ auto_retry' = auto_retry]_vars

\* reset() was called on a limiter with a server-reported limit, a full
\* bucket and a caller backing off.
C13_Witness ==
    /\ lastOp.op = "reset"
    /\ \E t \in Tasks : pc[t] = "sleeping" /\ waited[t]

\* C25 (as stated): a pass of wait_if_needed that computes a wait time (the
\* bucket is full and auto_retry is on) has a non-empty bucket, so the wait is
\* computed from the oldest request and never from the 0.1 s fallback.
C25_WindowNonEmptyAtWait == lastOp.op = "wait" => bucket # <<>>

\* C26: retry_count is always within 0..max_retries (5); a pass of
\* wait_if_needed that waits adds one to it, up to 5 and no further, a pass
\* that admits (on entry or after a sleep) sets it to 0, and a pass that
\* raises UpbitRateLimitError leaves it as it was.
C26_RetryCountBounded ==
    [][/\ retry_count \in 0..5
       /\ retry_count' \in 0..5
       /\ lastOp'.op = "wait" =>
             retry_count' = IF retry_count < 5 THEN retry_count + 1 ELSE 5
       /\ lastOp'.op = "admit" => retry_count' = 0
       /\ lastOp'.op = "raise" => retry_count' = retry_count]_vars

\* A pass waited with the counter already at 5: it stays at 5 and the sleep
\* is the one of the multiplier 2^5 (more than 32 s).
C26_Witness ==
    /\ lastOp.op = "wait"
    /\ retry_count = 5
    /\ sleepLeft[lastOp.task] > 32 * TicksPerSec

\* C27: a pass of wait_if_needed that waits sleeps
\* min((base_wait + 1.0) * 2^retry_count, 60.0) seconds, with retry_count as
\* it was before the pass incremented it and base_wait the time until the
\* oldest request of the bucket expires (0.1 s for an empty bucket); so every
\* sleep is between 1.0 s and 60.0 s and the multiplier is at most 2^5.
\* Times are in tenths of a tick; the sleep is rounded up to whole ticks.
C27_WaitTime ==
    [][lastOp'.op = "wait" =>
         LET one == 10 * TicksPerSec
             bw == IF bucket' # <<>> THEN 10 * (TicksPerSec - bucket'[1])
                   ELSE TicksPerSec
             uncapped == (bw + one) * Pow2(retry_count)
             delay == IF uncapped < 60 * one THEN uncapped ELSE 60 * one
         IN  /\ sleepLeft'[lastOp'.task] = (delay + 9) \div 10
             /\ delay >= one
             /\ delay <= 60 * one
             /\ sleepLeft'[lastOp'.task] >= TicksPerSec
             /\ sleepLeft'[lastOp'.task] <= 60 * TicksPerSec
             /\ Pow2(retry_count) <= 32]_vars

\* A second wait in a row on a bucket that holds a request of the last
\* second: the multiplier is 2 and the sleep at least 3 s.
C27_Witness ==
    /\ lastOp.op = "wait"
    /\ retry_count = 2
    /\ bucket # <<>>
    /\ bucket[1] < TicksPerSec
    /\ sleepLeft[lastOp.task] >= 3 * TicksPerSec

\* C28: with two tasks inside wait_if_needed and update_from_headers calls
\* arriving while they sleep, the pass a task makes after its sleep decides
\* from the bucket and the limit as they are then: it admits exactly when
\* the unexpired bucket is below the limit in force; an admission leaves at
\* most that limit in the bucket and appends one timestamp for the one task
\* it admits, and the other task stays where it was.
C28_WaitersRecheck ==
    [][\A t \in Tasks :
         /\ (/\ pc[t] = "sleeping"
             /\ lastOp'.op \in AcquireOps
             /\ lastOp'.task = t) =>
               /\ sleepLeft[t] = 0
               /\ (lastOp'.op = "admit") <=> (Fresh(bucket) < Capacity)
               /\ lastOp'.op # "admit" => bucket' = InWindow(bucket)
         /\ (lastOp'.op = "admit" /\ lastOp'.task = t) =>
               /\ Len(bucket') <= Capacity
               /\ Len(bucket') = Fresh(bucket) + 1
               /\ pc'[t] = "idle"
               /\ \A u \in Tasks \ {t} :
                     pc'[u] = pc[u] /\ sleepLeft'[u] = sleepLeft[u]]_vars

\* A task that had to wait was admitted after its sleep while the other task
\* is still asleep, under a limit the server reported below max_requests,
\* which the bucket now holds exactly.
C28_Witness ==
    /\ lastOp.op = "admit"
    /\ waited[lastOp.task]
    /\ \E u \in Tasks \ {lastOp.task} : pc[u] = "sleeping" /\ sleepLeft[u] > 0
    /\ remaining # None
    /\ remaining[1] < max_requests
    /\ Len(bucket) = remaining[1]

\* -------------------------------------------------------- session properties

\* C2 (as stated): while run is backing off, connecting or receiving, and
\* unless the caller subscribed or unsubscribed during a replay, subscriptions
\* is the list as the caller's subscribe and unsubscribe calls last left it.
C2_SubscriptionsDurable ==
    (runPc \in {"backoff", "connecting", "recv", "callback"} /\ ~interfered)
        => subscriptions = desired

\* C3: when the replay after a failure is through and the caller made no call
\* since the failure, one frame went out per subscription tracked at the
\* failure, in their order, and subscriptions is that list again.
C3_ReplayExact ==
    (runPc = "recv" /\ sinceFailure = "clean") =>
        (replayed = atFailure /\ subscriptions = atFailure)

\* A replay of two subscriptions on the second connection has completed.
C3_Witness ==
    /\ runPc = "recv"
    /\ sinceFailure = "clean"
    /\ websocket = 2
    /\ Len(replayed) = 2
    /\ replayed[1] # replayed[2]

\* C4 (as stated): once close() has returned (and until the caller connects
\* again) running is false and no connection handle is set.
C4_CloseStopsRun == closeReturned => (~running /\ websocket = NoConn)

\* C7 (as stated): a connection handle implies running.
C7_HandleImpliesRunning == websocket # NoConn => running

\* C7 (amended): a connection handle implies running, except while a close()
\* call is suspended in the transport's close and after run was cancelled
\* (which clears running and leaves the handle until the next connect/close).
C7_HandleImpliesRunningUnlessStopped ==
    (websocket # NoConn /\ ~running) => (callerPc = "closing" \/ cancelLeftOpen)

\* Connected and running in the receive loop, on a connection run made itself.
C7_Witness ==
    /\ websocket = 2
    /\ running
    /\ runPc = "recv"
    /\ subscriptions # <<>>

\* The sleeps of consecutive failures from reconnect_delay = 1.0 on.
ExpectedSleep(k) == IF k < 8 THEN <<1, 2, 4, 8, 16, 32, 60, 60>>[k + 1] ELSE 60

\* C8: a failure sleeps for the current reconnect_delay, which is the k-th
\* term of 1, 2, 4, 8, 16, 32, 60, 60, ... after k failures since the delay
\* was last 1.0, and the wake-up sets it to min(2 * reconnect_delay, 60).
C8_BackoffSequence ==
    [][/\ (runPc # "backoff" /\ runPc' = "backoff") =>
            (sleepFor' = reconnect_delay /\ sleepFor' = ExpectedSleep(streak))
       /\ (runPc = "backoff" /\ runPc' \notin {"backoff", "cancelled"}) =>
            reconnect_delay' = IF 2 * reconnect_delay > 60 THEN 60
                               ELSE 2 * reconnect_delay]_vars

\* The eighth failure in a row sleeps 60.
C8_Witness ==
    /\ runPc = "backoff"
    /\ streak = 7
    /\ sleepFor = 60

\* C14: the callback is started for the messages of a connection in the
\* order they were received, each once, and only when the callback of the
\* message before it has completed.
C14_InOrderOneAtATime ==
    [][(runPc' = "callback" /\ (runPc # "callback" \/ lastCb' # lastCb)) =>
         /\ runPc = "recv"
         /\ lastCb' = lastCb + 1
         /\ cbDone = lastCb]_vars

\* The callback runs for the second message of a connection after the
\* callback of the first has returned.
C14_Witness == runPc = "callback" /\ lastCb = 2 /\ cbDone = 1

\* A step in which the try block of run raised something other than
\* ConnectionClosed or CancelledError: connect failed, the replay found no
\* connection, a payload was rejected, or the callback raised.
ErrorStep ==
    \/ /\ runPc = "connecting"
       /\ runPc' \notin {"connecting", "cancelled"}
       /\ conn' = conn
    \/ /\ runPc = "resub"
       /\ IsOpen(sendConn)
       /\ runPc' \in {"backoff", "raised"}
    \/ /\ runPc = "recv"
       /\ IsOpen(iterConn)
       /\ runPc' \notin {"recv", "callback", "cancelled"}
    \/ /\ runPc = "callback"
       /\ runPc' \notin {"callback", "recv", "cancelled"}

\* C15: an error in run's try block while running is true does not leave
\* run: the handle is cleared and run sleeps reconnect_delay (then doubles it
\* and goes round, C8), exactly as for ConnectionClosed; run raises to its
\* caller only when running was already false.
C15_ErrorsBackOff ==
    [][/\ (ErrorStep /\ running) =>
             /\ runPc' = "backoff"
             /\ websocket' = NoConn
             /\ sleepFor' = reconnect_delay
             /\ reconnect_delay' = reconnect_delay
             /\ running'
       /\ (ErrorStep /\ ~running) => runPc' = "raised"
       /\ (runPc' = "raised" /\ runPc # "raised") => ~running]_vars

\* run is backing off for the second time in a row although the only
\* connection ever made is still open: the failures were errors (a rejected
\* payload or a callback exception, then a failed connect), not a close.
C15_Witness ==
    /\ runPc = "backoff"
    /\ running
    /\ websocket = NoConn
    /\ conn[1] = "open"
    /\ \A c \in ConnIds \ {1} : conn[c] = "new"
    /\ sleepFor = 2

\* C16 (as stated): whenever run's task is cancelled, at any of its await
\* points, running becomes false and the CancelledError leaves run; the
\* handle, the transports, subscriptions and reconnect_delay stay as they were.
C16_CancelStopsRun ==
    [][(runPc' = "cancelled" /\ runPc # "cancelled") =>
         /\ ~running'
         /\ websocket' = websocket
         /\ conn' = conn
         /\ subscriptions' = subscriptions
         /\ reconnect_delay' = reconnect_delay]_vars

\* C17: a connect() that succeeds stores the new connection, sets running and
\* resets reconnect_delay to RECONNECT_DELAY (the caller's connect and the one
\* run makes); a connect() that fails raises to its caller at once and leaves
\* the handle, running, reconnect_delay and subscriptions as they were.
C17_ConnectOutcome ==
    [][/\ (callerPc = "connecting" /\ callerPc' = "idle") =>
             IF callerResult' = "ok"
             THEN /\ websocket' # NoConn
                  /\ conn[websocket'] = "new"
                  /\ conn'[websocket'] = "open"
                  /\ running'
                  /\ reconnect_delay' = RECONNECT_DELAY
             ELSE /\ callerResult' = "connect_failed"
                  /\ websocket' = websocket
                  /\ conn' = conn
                  /\ running' = running
                  /\ reconnect_delay' = reconnect_delay
                  /\ subscriptions' = subscriptions
       /\ (runPc = "connecting" /\ conn' # conn /\ runPc' # "connecting") =>
             /\ websocket' # NoConn
             /\ conn[websocket'] = "new"
             /\ conn'[websocket'] = "open"
             /\ running'
             /\ reconnect_delay' = RECONNECT_DELAY]_vars

\* The caller's connect() failed while run is between two reconnect
\* attempts, with a doubled reconnect_delay and a tracked subscription.
C17_Witness ==
    /\ callerResult = "connect_failed"
    /\ websocket = NoConn
    /\ running
    /\ reconnect_delay = 2
    /\ subscriptions # <<>>

\* C18: subscribe appends its entry exactly when its send returned; without a
\* connection handle it raises before any send, and when it raises (no
\* handle, or the send raised) subscriptions is as it was.
C18_SubscribeAppendsAfterSend ==
    [][/\ (callerPc = "idle" /\ callerPc' = "sending") => websocket # NoConn
       /\ (callerPc = "idle" /\ callerResult' = "not_connected"
              /\ callerResult # "not_connected") =>
             /\ websocket = NoConn
             /\ callerPc' = "idle"
             /\ subscriptions' = subscriptions
       /\ (callerPc = "sending" /\ callerPc' = "idle") =>
             IF IsOpen(callerConn)
             THEN /\ callerResult' = "subscribed"
                  /\ subscriptions' = Append(subscriptions, callerEntry)
             ELSE /\ callerResult' = "send_failed"
                  /\ subscriptions' = subscriptions]_vars

\* A subscribe call failed in its send while another subscription is tracked.
C18_Witness ==
    /\ callerResult = "send_failed"
    /\ Len(subscriptions) = 1
    /\ desired = subscriptions

\* Both keys were given to the constructor (neither None nor empty).
Configured == access_key \notin {"none", ""} /\ secret_key \notin {"none", ""}

\* C19: the ticket frame of a subscribe call has an auth key exactly when
\* both keys are configured and some channel is myOrder or myAsset; auth is
\* then the token generated for these keys with no query and no body, and
\* otherwise the frame is {ticket: ticket} alone.
C19_AuthIffPrivateAndKeys ==
    callerPc = "sending" =>
        LET private == \E i \in DOMAIN callerEntry.channels :
                           callerEntry.channels[i] \in {"myOrder", "myAsset"}
        IN  /\ ("auth" \in DOMAIN callerMsg) <=> (Configured /\ private)
            /\ callerMsg.ticket = callerEntry.ticket
            /\ "auth" \in DOMAIN callerMsg =>
                   callerMsg.auth = [access_key |-> access_key,
                                     query_hash |-> "none",
                                     signed_with |-> secret_key]
            /\ "auth" \notin DOMAIN callerMsg =>
                   callerMsg = [ticket |-> callerEntry.ticket]

\* A subscribe to a public and a private channel with both keys configured
\* is sending a frame with auth.
C19_Witness ==
    /\ callerPc = "sending"
    /\ callerEntry.channels = <<"ticker", "myOrder">>
    /\ Configured
    /\ "auth" \in DOMAIN callerMsg

RECURSIVE Removed(_, _)
\* s without its entries of ticket t, the others in their order.
Removed(s, t) ==
    IF s = <<>> THEN <<>>
    ELSE IF Head(s).ticket = t THEN Removed(Tail(s), t)
    ELSE <<Head(s)>> \o Removed(Tail(s), t)

\* C20: unsubscribe(ticket) removes every entry of that ticket and keeps the
\* others in their order; it changes nothing when no entry has the ticket, so
\* a second call in a row changes nothing.
C20_UnsubscribeRemovesAll ==
    [][\A t \in UnsubTickets :
         CallerUnsubscribe(t) =>
            /\ subscriptions' = Removed(subscriptions, t)
            /\ \A i \in 1..Len(subscriptions') : subscriptions'[i].ticket # t
            /\ (\A i \in 1..Len(subscriptions) : subscriptions[i].ticket # t)
                  => subscriptions' = subscriptions]_vars

\* An unsubscribe removed one of three entries and kept the two others, of
\* the tickets c and a in this order.
C20_Witness ==
    /\ callerResult = "removed"
    /\ Len(subscriptions) = 2
    /\ subscriptions[1].ticket = "c"
    /\ subscriptions[2].ticket = "a"

\* C21: unsubscribe(ticket) puts no frame on the wire (the caller is not
\* suspended in a send and no frame is in flight when it returns) and leaves
\* the handle, the transports, running and reconnect_delay as they were,
\* connected or not; run's task is where it was, so the call shows only in
\* subscriptions, which the next replay reads.
C21_UnsubscribeSendsNothing ==
    [][\A t \in Tickets :
         CallerUnsubscribe(t) =>
            /\ callerPc' = "idle"
            /\ callerMsg' = NoMsg
            /\ websocket' = websocket
            /\ conn' = conn
            /\ running' = running
            /\ reconnect_delay' = reconnect_delay
            /\ UNCHANGED runSide]_vars

\* An unsubscribe removed an entry on an open connection that run is
\* receiving from, and another entry is still tracked.
C21_Witness ==
    /\ callerResult = "removed"
    /\ callerPc = "idle"
    /\ IsOpen(websocket)
    /\ running
    /\ runPc = "recv"
    /\ subscriptions # <<>>

\* C22: close() sets running to false and never touches subscriptions or
\* reconnect_delay.  With a handle it closes the transport the handle names
\* (and no other) and, once that close has returned, clears the handle; with
\* no handle it returns at once without an error and without touching any
\* transport, so that a close() on a closed session changes nothing at all.
C22_CloseIdempotent ==
    [][/\ CallerClose =>
             /\ ~running'
             /\ subscriptions' = subscriptions
             /\ reconnect_delay' = reconnect_delay
             /\ websocket' = websocket
             /\ UNCHANGED runSide
             /\ IF websocket = NoConn
                THEN /\ callerPc' = "idle"
                     /\ callerResult' = "ok"
                     /\ conn' = conn
                     /\ ~running => UNCHANGED <<running, websocket, conn,
                                                subscriptions, reconnect_delay>>
                ELSE /\ callerPc' = "closing"
                     /\ conn'[websocket] # "open"
                     /\ \A c \in ConnIds \ {websocket} : conn'[c] = conn[c]
       /\ (callerPc = "closing" /\ callerPc' = "idle") =>
             /\ callerResult' = "ok"
             /\ websocket' = NoConn
             /\ conn[callerConn] # "open"
             /\ conn' = conn
             /\ running' = running
             /\ subscriptions' = subscriptions
             /\ reconnect_delay' = reconnect_delay]_vars

\* close() has returned on a session that made two connections and tracks a
\* subscription: no handle, not running, the second transport closed, the
\* subscription still tracked.
C22_Witness ==
    /\ closeReturned
    /\ callerResult = "ok"
    /\ websocket = NoConn
    /\ ~running
    /\ conn[2] = "closed_ok"
    /\ subscriptions # <<>>

\* C23: in every state of the session RECONNECT_DELAY <= reconnect_delay <=
\* MAX_RECONNECT_DELAY (1.0 and 60.0), whatever connects, failures, drops and
\* closes came before.
C23_DelayWithinBounds ==
    /\ RECONNECT_DELAY <= reconnect_delay
    /\ reconnect_delay <= MAX_RECONNECT_DELAY

\* run is about to reconnect with the delay at its cap, where another
\* doubling would leave the range.
C23_Witness ==
    /\ runPc = "connecting"
    /\ reconnect_delay = MAX_RECONNECT_DELAY
    /\ 2 * reconnect_delay > MAX_RECONNECT_DELAY

\* C24 (as stated): when run's task, with running true, finds that the
\* connection it iterates has ended, by a ConnectionClosed error or by the
\* iteration ending without an error, it clears the handle and sleeps
\* reconnect_delay, and after the sleep (still running, no handle) it
\* connects; it does not go on iterating the ended connection.
C24_EndedStreamReconnects ==
    [][/\ (/\ runPc = "recv"
           /\ running
           /\ ~IsOpen(iterConn)
           /\ runSide' # runSide
           /\ runPc' # "cancelled") =>
             /\ websocket' = NoConn
             /\ runPc' = "backoff"
             /\ sleepFor' = reconnect_delay
       /\ (/\ runPc = "backoff"
           /\ runPc' \notin {"backoff", "cancelled"}
           /\ running
           /\ websocket = NoConn) => runPc' = "connecting"]_vars

\* The caller's subscribe and unsubscribe calls have left no entry of ticket t:
\* it unsubscribed t after its last subscribe of t, or never subscribed t.
NotWanted(t) ==
    /\ \A i \in 1..Len(desired) : desired[i].ticket # t
    /\ ~(callerPc = "sending" /\ callerEntry.ticket = t)

\* C29 (as stated): from the return of unsubscribe(ticket) until the caller
\* subscribes with that ticket again, subscriptions has no entry of that
\* ticket (so none is there for a later replay), also when the call came
\* while run was suspended in a replay.
C29_UnsubscribedStaysOut ==
    \A t \in Tickets :
        NotWanted(t) => \A i \in 1..Len(subscriptions) : subscriptions[i].ticket # t

\* The transports the session has opened that nothing has closed.
OpenConns(cs) == {c \in ConnIds : cs[c] = "open"}

\* C30 (as stated): the session has at most one open transport at any time,
\* and whenever the handle is cleared or set to another connection, the
\* transport it named is closed by then.
C30_OneOpenTransport ==
    [][/\ Cardinality(OpenConns(conn')) <= 1
       /\ (websocket # NoConn /\ websocket' # websocket) =>
             conn'[websocket] # "open"]_vars

\* ------------------------------------------------------- executor properties

\* The steps of the request in progress before its i-th step.
Before(i, e, l) == \E j \in 1..(i - 1) : trace[j] = Event(e, l)

\* C6: every network call comes after an acquire on the limiter of the
\* request's endpoint group, and every response is followed by an observe on
\* that limiter before the executor returns or raises.
C6_AcquireThenObserve ==
    \A i \in 1..Len(trace) :
        /\ trace[i].ev = "network" => Before(i, "acquire", req.path.service)
        /\ trace[i].ev \in {"return", "raise"} =>
               Before(i, "observe", req.path.service)

====
